---- MODULE Spec2Model ----
(***************************************************************************)
(* Model of layers/Embed.py: the input-embedding modules of a time-series  *)
(* forecasting network.  One object is alive at a time: a constructor      *)
(* action builds it (cls, self), a forward action calls it (args, local,   *)
(* ret).  Tensors are nested sequences, outermost dimension first; index i *)
(* of the source (0-based) is index i+1 here.  A floating-point value that *)
(* comes out of sin/cos, a learned table or a learned linear map is kept   *)
(* as a symbolic term (a record naming the function and its arguments).    *)
(***************************************************************************)
EXTENDS Integers, Sequences, FiniteSets, TLC

\* The attribute and field names of the records of the model.  Every record
\* below lists its fields in this (alphabetical) order.
FieldNames ==
    [bias |-> 1, c_in |-> 2, cls |-> 3, col |-> 4, d |-> 5, d_model |-> 6,
     day_embed |-> 7, drop |-> 8, embed_type |-> 9, fn |-> 10, freq |-> 11,
     hour_embed |-> 12, i |-> 13, kind |-> 14, mark |-> 15, max_len |-> 16,
     minute_embed |-> 17, month_embed |-> 18, mul |-> 19, n_channel |-> 20,
     none |-> 21, of |-> 22, padded |-> 23, padding |-> 24, patch_len |-> 25,
     pe |-> 26, pos |-> 27, position_embedding |-> 28, raised |-> 29,
     requires_grad |-> 30, row |-> 31, size |-> 32, stride |-> 33, table |-> 34,
     temporal_embedding |-> 35, v |-> 36, value |-> 37, value_embedding |-> 38,
     weekday_embed |-> 39, weight |-> 40, x |-> 41, x_embed |-> 42, x_mark |-> 43]

VARIABLES version, cls, self, phase, args, local, ret

vars == <<version, cls, self, phase, args, local, ret>>

(* ------------------------------ bounds -------------------------------- *)
MaxBatch == 1
MaxLen == 3
MaxChan == 2
MaxDModel == 3
MaxPatchLen == 3
MaxStride == 3
MaxSeqLen == 3
MaxMaxLen == 3

Offsets == {0, 1}
MarkOffsets == {-2, -1, 0, 8}
MarkWidths == {4, 5}
EmbedTypes == {"fixed", "learned", "timeF"}
Freqs == {"h", "t", "s"}
Seeds == {0, 1}

\* nn.Dropout at a call: the module in eval mode, or in training mode with
\* one of these draws of the mask
DropChoices == {"eval", "keep", "alternate"}

\* the (c_in, d_model) pairs and the (batch, length) shapes the composed
\* modules are built and called with
DataDims == {<<1, 1>>, <<2, 2>>, <<1, 3>>}
DataShapes == {<<1, 1>>, <<1, 2>>, <<2, 3>>}

(* ------------------------------ helpers ------------------------------- *)
RECURSIVE SumSeq(_)
SumSeq(s) == IF s = <<>> THEN 0 ELSE Head(s) + SumSeq(Tail(s))

\* input tensors: torch.arange(B*L*C).reshape(B, L, C) + a, every entry distinct
Arange3(B, L, C, a) ==
    [b \in 1..B |-> [t \in 1..L |-> [c \in 1..C |->
        a + ((b - 1) * L + (t - 1)) * C + (c - 1)]]]

\* x.permute(0, 2, 1) and x.transpose(1, 2) of a 3-d tensor
Permute021(x) ==
    [b \in 1..Len(x) |->
        [c \in 1..Len(x[b][1]) |-> [t \in 1..Len(x[b]) |-> x[b][t][c]]]]

NoRet == [raised |-> FALSE, value |-> <<>>]
Raise == [raised |-> TRUE, value |-> <<>>]
Return(v) == [raised |-> FALSE, value |-> v]

(* ------------------------ torch.__version__ ---------------------------- *)
Ord == [c \in {".", "0", "1", "2", "3", "4", "5", "6", "7", "8", "9"} |->
          CASE c = "." -> 46 [] c = "0" -> 48 [] c = "1" -> 49 [] c = "2" -> 50
            [] c = "3" -> 51 [] c = "4" -> 52 [] c = "5" -> 53 [] c = "6" -> 54
            [] c = "7" -> 55 [] c = "8" -> 56 [] c = "9" -> 57]

\* the version strings the program may be imported under, character by character
Versions == { <<"1", ".", "4", ".", "0">>,
              <<"1", ".", "5", ".", "0">>,
              <<"1", ".", "9", ".", "1">>,
              <<"1", ".", "1", "0", ".", "0">>,
              <<"2", ".", "1", ".", "0">> }

\* Python's str.__ge__: code points compared left to right, a proper prefix is smaller
RECURSIVE StrLess(_, _)
StrLess(a, b) ==
    IF b = <<>> THEN FALSE
    ELSE IF a = <<>> THEN TRUE
    ELSE IF Ord[Head(a)] < Ord[Head(b)] THEN TRUE
    ELSE IF Ord[Head(a)] > Ord[Head(b)] THEN FALSE
    ELSE StrLess(Tail(a), Tail(b))

StrGE(a, b) == ~StrLess(a, b)

\* the release a version string names, as the tuple of its numeric fields
Digit(c) == Ord[c] - 48

RECURSIVE ParseFields(_, _, _)
ParseFields(s, cur, acc) ==
    IF s = <<>> THEN Append(acc, cur)
    ELSE IF Head(s) = "." THEN ParseFields(Tail(s), 0, Append(acc, cur))
    ELSE ParseFields(Tail(s), 10 * cur + Digit(Head(s)), acc)

Release(v) == ParseFields(v, 0, <<>>)

\* release-order comparison of two three-field releases
ReleaseGE(r, q) ==
    \/ r[1] > q[1]
    \/ r[1] = q[1] /\ r[2] > q[2]
    \/ r[1] = q[1] /\ r[2] = q[2] /\ r[3] >= q[3]

(* ---------------------------- TokenEmbedding --------------------------- *)
kernel_size == 3

\* padding = 1 if torch.__version__ >= '1.5.0' else 2
TokenPadding(v) == IF StrGE(v, <<"1", ".", "5", ".", "0">>) THEN 1 ELSE 2

\* a draw of nn.init.kaiming_normal_: weight[d][c][k], one tensor per seed
ConvWeight(seed, d_model, c_in) ==
    [d \in 1..d_model |-> [c \in 1..c_in |-> [k \in 1..kernel_size |->
        ((seed + d + 2 * c + k) % 3) - 1]]]

\* the (left, right) circular padding nn.Conv1d applies for padding p:
\* p on both sides from release 1.5.0 on, ((p+1)//2, p//2) before it
CircularPads(v, p) ==
    IF ReleaseGE(Release(v), <<1, 5, 0>>) THEN <<p, p>>
    ELSE <<(p + 1) \div 2, p \div 2>>

\* F.pad(row, (l, r), mode='circular') of one channel row
PadCircular(row, l, r) ==
    SubSeq(row, Len(row) - l + 1, Len(row)) \o row \o SubSeq(row, 1, r)

\* nn.Conv1d(c_in, d_model, kernel_size=3, padding=p, padding_mode='circular',
\* bias=False) on x of shape (B, c_in, L); raises when the padding wraps
\* around more than once
Conv1d(v, w, p, x) ==
    LET pads == CircularPads(v, p)
        L == Len(x[1][1])
        Lout == L + pads[1] + pads[2] - (kernel_size - 1)
        xp == [b \in 1..Len(x) |-> [c \in 1..Len(x[b]) |->
                 PadCircular(x[b][c], pads[1], pads[2])]]
    IN IF pads[1] > L \/ pads[2] > L THEN Raise
       ELSE Return(
         [b \in 1..Len(x) |-> [d \in 1..Len(w) |-> [t \in 1..Lout |->
            SumSeq([c \in 1..Len(w[d]) |->
               SumSeq([k \in 1..kernel_size |-> w[d][c][k] * xp[b][c][t + k - 1]])])]]])

TokenEmbedding_init(v, c_in, d_model, seed) ==
    [c_in |-> c_in, d_model |-> d_model, padding |-> TokenPadding(v),
     weight |-> ConvWeight(seed, d_model, c_in)]

\* x = self.tokenConv(x.permute(0, 2, 1)).transpose(1, 2)
TokenEmbedding_forward(v, s, x) ==
    LET y == Conv1d(v, s.weight, s.padding, Permute021(x))
    IN IF y.raised THEN Raise ELSE Return(Permute021(y.value))

(* -------------------------- PositionalEmbedding ------------------------ *)
\* the entry fn(position * div_term[i]), div_term[i] = exp(2i * -(ln 10000 / d))
SinCos(f, p, n, w) == [d |-> w, fn |-> f, i |-> n, pos |-> p]

\* d_model_raw odd: the table is built one column wider
PaddedDModel(d_model) == IF d_model % 2 # 0 THEN d_model + 1 ELSE d_model

\* one entry of the table: pe[:, 0::2] = sin(position * div_term);
\* pe[:, 1::2] = cos(position * div_term), on the padded width
PositionalEntry(d_model, pos, col) ==
    SinCos(IF col % 2 = 0 THEN "sin" ELSE "cos", pos, col \div 2, PaddedDModel(d_model))

\* pe = pe.unsqueeze(0); pe = pe[:, :, :d_model_raw] when d_model_raw is odd
PositionalTable(d_model, max_len) ==
    <<[p \in 1..max_len |-> [c \in 1..d_model |-> PositionalEntry(d_model, p - 1, c - 1)]]>>

PositionalEmbedding_init(d_model, max_len) ==
    [d_model |-> d_model, max_len |-> max_len, pe |-> PositionalTable(d_model, max_len)]

\* def __init__(self, d_model, max_len=5000)
default_max_len == 5000

\* x.shape[1]
SeqDim(x) == Len(x[1])

Min(a, b) == IF a < b THEN a ELSE b

\* output = self.pe[:, :x.shape[1]]  (a slice past the end stops at the end)
PositionalSliceTail(pe, L) ==
    <<SubSeq(pe[1], Len(pe[1]) - Min(L, Len(pe[1])) + 1, Len(pe[1]))>>
PositionalSlice(pe, L) == <<SubSeq(pe[1], 1, Min(L, Len(pe[1])))>>

PositionalEmbedding_forward(s, x) == Return(PositionalSlice(s.pe, SeqDim(x)))

\* the buffer after forward: forward assigns nothing to self.pe
PositionalBufferAfter(s, x) == s.pe

(* --------------------- sums of terms and nn.Dropout -------------------- *)
\* A summed tensor holds, per element, the sequence of the terms added.
Num(v) == [fn |-> "num", v |-> v]

Lift(t) == [b \in 1..Len(t) |-> [r \in 1..Len(t[b]) |-> [c \in 1..Len(t[b][r]) |->
              <<Num(t[b][r][c])>>]]]

Terms(t) == [b \in 1..Len(t) |-> [r \in 1..Len(t[b]) |-> [c \in 1..Len(t[b][r]) |->
              <<t[b][r][c]>>]]]

Max(a, b) == IF a > b THEN a ELSE b

BroadcastOK(m, n) == m = n \/ m = 1 \/ n = 1

\* a + b of two 3-d tensors under torch's broadcasting; raises on a size mismatch
TensorAdd(a, b) ==
    IF a.raised \/ b.raised THEN Raise
    ELSE LET sa == <<Len(a.value), Len(a.value[1]), Len(a.value[1][1])>>
             sb == <<Len(b.value), Len(b.value[1]), Len(b.value[1][1])>>
             At(t, sh, i, j, k) == t[IF sh[1] = 1 THEN 1 ELSE i]
                                    [IF sh[2] = 1 THEN 1 ELSE j]
                                    [IF sh[3] = 1 THEN 1 ELSE k]
         IN IF \E n \in 1..3 : ~BroadcastOK(sa[n], sb[n]) THEN Raise
            ELSE Return([i \in 1..Max(sa[1], sb[1]) |-> [j \in 1..Max(sa[2], sb[2]) |->
                           [k \in 1..Max(sa[3], sb[3]) |->
                               At(a.value, sa, i, j, k) \o At(b.value, sb, i, j, k)]]])

\* self.dropout(x): the identity in eval mode; in training mode an element is
\* zeroed or scaled by 1/(1-p) as the mask says
DropMul(choice, i, j, k) ==
    CASE choice = "eval" -> "1"
      [] choice = "keep" -> "1/(1-p)"
      [] choice = "alternate" -> IF (i + j + k) % 2 = 0 THEN "1/(1-p)" ELSE "0"

Dropout(choice, r) ==
    IF r.raised THEN Raise
    ELSE Return([i \in 1..Len(r.value) |-> [j \in 1..Len(r.value[i]) |->
                   [k \in 1..Len(r.value[i][j]) |->
                       [fn |-> "dropout", mul |-> DropMul(choice, i, j, k),
                        of |-> r.value[i][j][k]]]]])

(* ------------------- FixedEmbedding and nn.Embedding ------------------- *)
\* FixedEmbedding(c_in, d_model): the sinusoidal table, not trainable.
\* w[:, 1::2] = cos(position * div_term) copies len(arange(0, d_model, 2))
\* columns into d_model // 2 columns and raises unless the sizes are equal or
\* the source has one column (d_model odd and above 1 raises).
FixedEmbedding_init(c_in, d_model) ==
    [d_model |-> d_model, kind |-> "FixedEmbedding",
     raised |-> LET src == (d_model + 1) \div 2
                    dst == d_model \div 2
                IN src # dst /\ src # 1,
     requires_grad |-> FALSE, size |-> c_in]

\* nn.Embedding(c_in, d_model): a learned table
Embedding_init(c_in, d_model) ==
    [d_model |-> d_model, kind |-> "nn.Embedding", raised |-> FALSE,
     requires_grad |-> TRUE, size |-> c_in]

\* entry (row, col) of a table: w[:, 0::2] = sin, w[:, 1::2] = cos for the fixed
\* one, the learned weight of the table called name otherwise
TableEntry(tab, name, row, col) ==
    IF tab.kind = "FixedEmbedding"
    THEN SinCos(IF col % 2 = 0 THEN "sin" ELSE "cos", row, col \div 2, tab.d_model)
    ELSE [col |-> col, fn |-> "weight", row |-> row, table |-> name]

\* tab(idx) for idx of shape (B, L): raises on an index outside 0..size-1
EmbeddingLookup(tab, name, idx) ==
    IF \E b \in 1..Len(idx) : \E t \in 1..Len(idx[b]) :
          idx[b][t] < 0 \/ idx[b][t] >= tab.size
    THEN Raise
    ELSE Return([b \in 1..Len(idx) |-> [t \in 1..Len(idx[b]) |->
                   [c \in 1..tab.d_model |-> <<TableEntry(tab, name, idx[b][t], c - 1)>>]]])

(* --------------------------- TemporalEmbedding ------------------------- *)
minute_size == 4
hour_size == 24
weekday_size == 7
day_size == 32
month_size == 13

\* Embed = FixedEmbedding if embed_type == 'fixed' else nn.Embedding
Embed(embed_type, c_in, d_model) ==
    IF embed_type = "fixed" THEN FixedEmbedding_init(c_in, d_model)
    ELSE Embedding_init(c_in, d_model)

\* if freq == 't': self.minute_embed = Embed(minute_size, d_model)
HasMinuteAlways(freq) == TRUE
HasMinute(freq) == freq = "t"

TemporalEmbedding_init(d_model, embed_type, freq) ==
    IF HasMinute(freq)
    THEN [cls |-> "TemporalEmbedding", d_model |-> d_model,
          day_embed |-> Embed(embed_type, day_size, d_model),
          embed_type |-> embed_type, freq |-> freq,
          hour_embed |-> Embed(embed_type, hour_size, d_model),
          minute_embed |-> Embed(embed_type, minute_size, d_model),
          month_embed |-> Embed(embed_type, month_size, d_model),
          raised |-> Embed(embed_type, hour_size, d_model).raised,
          weekday_embed |-> Embed(embed_type, weekday_size, d_model)]
    ELSE [cls |-> "TemporalEmbedding", d_model |-> d_model,
          day_embed |-> Embed(embed_type, day_size, d_model),
          embed_type |-> embed_type, freq |-> freq,
          hour_embed |-> Embed(embed_type, hour_size, d_model),
          month_embed |-> Embed(embed_type, month_size, d_model),
          raised |-> Embed(embed_type, hour_size, d_model).raised,
          weekday_embed |-> Embed(embed_type, weekday_size, d_model)]

\* mark values are held in halves (n stands for n/2); x.long() truncates
\* toward zero
Long(n) == IF n >= 0 THEN n \div 2 ELSE -((-n) \div 2)

\* x[:, :, col] of the integer-cast marks; col from 0
Column(x, col) == [b \in 1..Len(x) |-> [t \in 1..Len(x[b]) |-> Long(x[b][t][col + 1])]]

hasattr(s, name) == name \in DOMAIN s

\* the column each table reads
MarkColumn(name) ==
    CASE name = "month" -> 0 [] name = "day" -> 1 [] name = "weekday" -> 2
      [] name = "hour" -> 3 [] name = "minute" -> 4

\* return hour_x + weekday_x + day_x + month_x + minute_x; an index past the
\* last column of x raises, and adding the float 0. changes nothing
TemporalEmbedding_forward(s, x) ==
    LET width == Len(x[1][1])
        Look(tab, name) ==
            IF MarkColumn(name) >= width THEN Raise
            ELSE EmbeddingLookup(tab, name, Column(x, MarkColumn(name)))
        hour_x == Look(s.hour_embed, "hour")
        weekday_x == Look(s.weekday_embed, "weekday")
        day_x == Look(s.day_embed, "day")
        month_x == Look(s.month_embed, "month")
        four == TensorAdd(TensorAdd(TensorAdd(hour_x, weekday_x), day_x), month_x)
    IN IF hasattr(s, "minute_embed")
       THEN TensorAdd(four, Look(s.minute_embed, "minute"))
       ELSE four

(* ------------------------- TimeFeatureEmbedding ------------------------ *)
freq_map == [f \in {"h", "t", "s", "m", "a", "w", "d", "b"} |->
    CASE f = "h" -> 4 [] f = "t" -> 5 [] f = "s" -> 6 [] f = "m" -> 1
      [] f = "a" -> 1 [] f = "w" -> 2 [] f = "d" -> 3 [] f = "b" -> 3]

\* a draw of the initial weight of nn.Linear(d_in, d_out): weight[d][j]
LinearWeight(seed, d_out, d_in) ==
    [d \in 1..d_out |-> [j \in 1..d_in |-> ((seed + d + j) % 3) - 1]]

LinearBias(seed, d_out) == [d \in 1..d_out |-> ((seed + d) % 2) + 1]

\* nn.Linear on the last dimension of a 3-d tensor; raises on a width mismatch
Linear(weight, bias, x) ==
    IF Len(x[1][1]) # Len(weight[1]) THEN Raise
    ELSE Return([b \in 1..Len(x) |-> [t \in 1..Len(x[b]) |-> [d \in 1..Len(weight) |->
            SumSeq([j \in 1..Len(weight[d]) |-> weight[d][j] * x[b][t][j]]) + bias[d]]]])

TimeFeatureEmbedding_init(d_model, embed_type, freq, seed) ==
    IF freq \notin DOMAIN freq_map
    THEN [cls |-> "TimeFeatureEmbedding", raised |-> TRUE]
    ELSE [cls |-> "TimeFeatureEmbedding", d_model |-> d_model,
          embed_type |-> embed_type, freq |-> freq, raised |-> FALSE,
          weight |-> LinearWeight(seed, d_model, freq_map[freq])]

\* a value in halves, the unit of the time marks
Half(v) == [fn |-> "half", v |-> v]

\* return self.embed(x), bias=False
TimeFeatureEmbedding_forward(s, x) ==
    LET y == Linear(s.weight, [d \in 1..s.d_model |-> 0], x)
    IN IF y.raised THEN Raise
       ELSE Return([b \in 1..Len(y.value) |-> [t \in 1..Len(y.value[b]) |->
                      [d \in 1..s.d_model |-> <<Half(y.value[b][t][d])>>]]])

(* ---------------- DataEmbedding and DataEmbedding_wo_pos --------------- *)
\* TemporalEmbedding(...) if embed_type != 'timeF' else TimeFeatureEmbedding(...)
TemporalChoiceFlipped(d_model, embed_type, freq, seed) ==
    IF embed_type = "timeF" THEN TemporalEmbedding_init(d_model, "learned", freq)
    ELSE TimeFeatureEmbedding_init(d_model, embed_type, freq, seed)
TemporalChoice(d_model, embed_type, freq, seed) ==
    IF embed_type # "timeF" THEN TemporalEmbedding_init(d_model, embed_type, freq)
    ELSE TimeFeatureEmbedding_init(d_model, embed_type, freq, seed)

\* self.temporal_embedding(x_mark)
Temporal_forward(s, x_mark) ==
    IF s.cls = "TemporalEmbedding" THEN TemporalEmbedding_forward(s, x_mark)
    ELSE TimeFeatureEmbedding_forward(s, x_mark)

DataEmbedding_init(v, c_in, d_model, embed_type, freq, seed) ==
    [c_in |-> c_in, d_model |-> d_model, embed_type |-> embed_type, freq |-> freq,
     position_embedding |-> [d_model |-> d_model, max_len |-> default_max_len],
     raised |-> TemporalChoice(d_model, embed_type, freq, seed).raised,
     temporal_embedding |-> TemporalChoice(d_model, embed_type, freq, seed),
     value_embedding |-> TokenEmbedding_init(v, c_in, d_model, seed)]

\* DataEmbedding_wo_pos.__init__ builds the same three parts
DataEmbedding_wo_pos_init(v, c_in, d_model, embed_type, freq, seed) ==
    [c_in |-> c_in, d_model |-> d_model, embed_type |-> embed_type, freq |-> freq,
     position_embedding |-> [d_model |-> d_model, max_len |-> default_max_len],
     raised |-> TemporalChoice(d_model, embed_type, freq, seed).raised,
     temporal_embedding |-> TemporalChoice(d_model, embed_type, freq, seed),
     value_embedding |-> TokenEmbedding_init(v, c_in, d_model, seed)]

\* the positional term of a module built with the default max_len
PositionalDefault_forward(pos, x) ==
    Return(PositionalSlice(PositionalTable(pos.d_model, Min(pos.max_len, SeqDim(x))),
                           SeqDim(x)))

LiftRet(r) == IF r.raised THEN Raise ELSE Return(Lift(r.value))
TermsRet(r) == IF r.raised THEN Raise ELSE Return(Terms(r.value))

ValueTerm(v, s, x) == LiftRet(TokenEmbedding_forward(v, s.value_embedding, x))
PositionTerm(s, x) == TermsRet(PositionalDefault_forward(s.position_embedding, x))
TemporalTerm(s, x_mark) == Temporal_forward(s.temporal_embedding, x_mark)

\* DataEmbedding.forward(x, x_mark); mark.none stands for x_mark is None
DataEmbedding_forward_NoPos(v, s, x, mark, drop) ==
    IF mark.none
    THEN Dropout(drop, ValueTerm(v, s, x))
    ELSE Dropout(drop, TensorAdd(ValueTerm(v, s, x), TemporalTerm(s, mark.x_mark)))
DataEmbedding_forward(v, s, x, mark, drop) ==
    IF mark.none
    THEN Dropout(drop, TensorAdd(ValueTerm(v, s, x), PositionTerm(s, x)))
    ELSE Dropout(drop, TensorAdd(TensorAdd(ValueTerm(v, s, x),
                                           TemporalTerm(s, mark.x_mark)),
                                 PositionTerm(s, x)))

\* DataEmbedding_wo_pos.forward(x, x_mark)
DataEmbedding_wo_pos_forward(v, s, x, mark, drop) ==
    IF mark.none
    THEN Dropout(drop, ValueTerm(v, s, x))
    ELSE Dropout(drop, TensorAdd(ValueTerm(v, s, x), TemporalTerm(s, mark.x_mark)))

(* ------------------------ DataEmbedding_inverted ----------------------- *)
DataEmbedding_inverted_init(c_in, d_model, seed) ==
    [bias |-> LinearBias(seed, d_model), c_in |-> c_in, d_model |-> d_model,
     weight |-> LinearWeight(seed, d_model, c_in)]

\* torch.cat([x, m], 1) of two (B, *, L) tensors; raises on a batch or
\* length mismatch
CatTokensSwapped(x, m) ==
    IF Len(x) # Len(m) \/ Len(x[1][1]) # Len(m[1][1]) THEN Raise
    ELSE Return([b \in 1..Len(x) |-> m[b] \o x[b]])
CatTokens(x, m) ==
    IF Len(x) # Len(m) \/ Len(x[1][1]) # Len(m[1][1]) THEN Raise
    ELSE Return([b \in 1..Len(x) |-> x[b] \o m[b]])

DataEmbedding_inverted_forward(s, x, mark, drop) ==
    LET xp == Permute021(x)
        tokens == IF mark.none THEN Return(xp)
                  ELSE CatTokens(xp, Permute021(mark.x_mark))
    IN IF tokens.raised THEN Raise
       ELSE Dropout(drop, LiftRet(Linear(s.weight, s.bias, tokens.value)))

(* ---------------------------- PatchEmbedding --------------------------- *)
\* nn.ReplicationPad1d((left, right)) of one series
ReplicationPad1d(row, left, right) ==
    [i \in 1..left |-> row[1]] \o row \o [i \in 1..right |-> row[Len(row)]]

\* self.padding_patch_layer = nn.ReplicationPad1d((0, stride))
PatchPads(stride) == <<0, stride>>

\* the number of windows of row.unfold(-1, size, step)
WindowNumShort(n, size, step) == IF (n - size) \div step > 1 THEN (n - size) \div step ELSE 1
WindowNum(n, size, step) == ((n - size) \div step) + 1

\* the element range window k (from 0) of unfold covers
WindowStartUnit(k, step) == k + 1
WindowStart(k, step) == k * step + 1

\* row.unfold(dimension=-1, size=size, step=step)
Unfold(row, size, step) ==
    [k \in 1..WindowNum(Len(row), size, step) |->
        SubSeq(row, WindowStart(k - 1, step), WindowStart(k - 1, step) + size - 1)]

\* torch.reshape(x, (x.shape[0] * x.shape[1], x.shape[2], x.shape[3]))
MergeBatchChannel(x) ==
    LET C == Len(x[1])
    IN [m \in 1..(Len(x) * C) |-> x[((m - 1) \div C) + 1][((m - 1) % C) + 1]]

PatchEmbedding_init(v, d_model, patch_len, stride, seed) ==
    [d_model |-> d_model, patch_len |-> patch_len,
     position_embedding |-> [d_model |-> d_model, max_len |-> default_max_len],
     stride |-> stride,
     value_embedding |-> TokenEmbedding_init(v, patch_len, d_model, seed)]

\* lines 224-231: n_channel, padding, unfold, reshape
PatchEmbedding_patching(s, x) ==
    LET pads == PatchPads(s.stride)
        padded == [b \in 1..Len(x) |-> [c \in 1..Len(x[b]) |->
                     ReplicationPad1d(x[b][c], pads[1], pads[2])]]
        fits == Len(padded[1][1]) >= s.patch_len
    IN [n_channel |-> Len(x[1]),
        padded |-> padded,
        raised |-> ~fits,
        x |-> IF fits
              THEN MergeBatchChannel([b \in 1..Len(x) |-> [c \in 1..Len(x[b]) |->
                       Unfold(padded[b][c], s.patch_len, s.stride)]])
              ELSE <<>>]

\* lines 235-245: ve + pe, dropout, return x_embed, n_channel
PatchEmbedding_forward(v, s, x, drop) ==
    LET l == PatchEmbedding_patching(s, x)
    IN IF l.raised THEN Raise
       ELSE LET ve == TokenEmbedding_forward(v, s.value_embedding, l.x)
                pe == PositionalDefault_forward(s.position_embedding, l.x)
                x_embed == Dropout(drop, TensorAdd(LiftRet(ve), TermsRet(pe)))
            IN IF x_embed.raised THEN Raise
               ELSE Return([n_channel |-> l.n_channel, x_embed |-> x_embed.value])

(* ------------------------------ actions -------------------------------- *)
Init ==
    /\ version \in Versions
    /\ cls = "none"
    /\ self = <<>>
    /\ phase = "import"
    /\ args = <<>>
    /\ local = <<>>
    /\ ret = NoRet

Construct(c, s) ==
    /\ cls = "none"
    /\ cls' = c
    /\ self' = s
    /\ phase' = "construct"
    /\ args' = <<>>
    /\ local' = <<>>
    /\ ret' = NoRet
    /\ UNCHANGED version

Call(a, l, r) ==
    /\ phase' = "forward"
    /\ args' = a
    /\ local' = l
    /\ ret' = r
    /\ UNCHANGED <<version, cls, self>>

NewTokenEmbedding ==
    \E c_in \in 1..MaxChan, d_model \in 1..MaxDModel, seed \in Seeds :
        Construct("TokenEmbedding", TokenEmbedding_init(version, c_in, d_model, seed))

ForwardTokenEmbedding ==
    /\ cls = "TokenEmbedding" /\ phase = "construct"
    /\ \E B \in 1..MaxBatch, L \in 1..MaxLen :
       \E x \in {Arange3(B, L, self.c_in, a) : a \in Offsets} :
          Call([x |-> x], <<>>, TokenEmbedding_forward(version, self, x))

NextToken == NewTokenEmbedding \/ ForwardTokenEmbedding

SpecToken == Init /\ [][NextToken]_vars

NewPositionalEmbedding ==
    \E d_model \in 1..MaxDModel, max_len \in 1..MaxMaxLen :
        Construct("PositionalEmbedding", PositionalEmbedding_init(d_model, max_len))

ForwardPositionalEmbedding ==
    /\ cls = "PositionalEmbedding"
    /\ \E B \in 1..MaxBatch, L \in 1..MaxLen, C \in 1..MaxChan, a \in Offsets :
         LET x == Arange3(B, L, C, a)
         IN /\ phase' = "forward"
            /\ args' = [x |-> x]
            /\ local' = <<>>
            /\ ret' = PositionalEmbedding_forward(self, x)
            /\ self' = [self EXCEPT !.pe = PositionalBufferAfter(self, x)]
            /\ UNCHANGED <<version, cls>>

NextPos == NewPositionalEmbedding \/ ForwardPositionalEmbedding

SpecPos == Init /\ [][NextPos]_vars

NewPatchEmbedding ==
    \E d_model \in 1..MaxDModel, patch_len \in 1..MaxPatchLen,
       stride \in 1..MaxStride, seed \in Seeds :
        Construct("PatchEmbedding",
                  PatchEmbedding_init(version, d_model, patch_len, stride, seed))

ForwardPatchEmbedding ==
    /\ cls = "PatchEmbedding" /\ phase = "construct"
    /\ \E B \in 1..MaxBatch, C \in 1..MaxChan, L \in 1..MaxSeqLen,
          a \in Offsets, drop \in DropChoices :
         LET x == Arange3(B, C, L, a)
         IN Call([drop |-> drop, x |-> x], PatchEmbedding_patching(self, x),
                 PatchEmbedding_forward(version, self, x, drop))

NextPatch == NewPatchEmbedding \/ ForwardPatchEmbedding

SpecPatch == Init /\ [][NextPatch]_vars

\* a constructor that raised leaves no object
ConstructOrRaise(c, s) ==
    IF s.raised
    THEN /\ cls = "none" /\ phase = "import"
         /\ phase' = "raised"
         /\ UNCHANGED <<version, cls, self, args, local, ret>>
    ELSE Construct(c, s)

\* time marks: entry (b, t, c) is (a + b + t + c) / 2
MarkTensor(B, L, C, a) ==
    [b \in 1..B |-> [t \in 1..L |-> [c \in 1..C |-> a + (b - 1) + (t - 1) + (c - 1)]]]

NewTemporalEmbedding ==
    \E d_model \in 1..MaxDModel, embed_type \in EmbedTypes \ {"timeF"}, freq \in Freqs :
        ConstructOrRaise("TemporalEmbedding",
                         TemporalEmbedding_init(d_model, embed_type, freq))

ForwardTemporalEmbedding ==
    /\ cls = "TemporalEmbedding" /\ phase = "construct"
    /\ \E B \in 1..MaxBatch, L \in 1..MaxLen, C \in MarkWidths, a \in MarkOffsets :
         LET x == MarkTensor(B, L, C, a)
         IN Call([x |-> x], <<>>, TemporalEmbedding_forward(self, x))

NextTemporal == NewTemporalEmbedding \/ ForwardTemporalEmbedding

SpecTemporal == Init /\ [][NextTemporal]_vars

NoMark == [none |-> TRUE, x_mark |-> <<>>]
Mark(m) == [none |-> FALSE, x_mark |-> m]

\* the x_mark arguments tried with an x of batch B and length L
Marks(B, L) ==
    {NoMark} \cup {Mark(MarkTensor(B, L, C, a)) : C \in MarkWidths, a \in MarkOffsets}

NewDataEmbedding ==
    \E dims \in DataDims, embed_type \in EmbedTypes, freq \in Freqs :
        ConstructOrRaise("DataEmbedding",
            DataEmbedding_init(version, dims[1], dims[2], embed_type, freq, 0))

ForwardDataEmbedding ==
    /\ cls = "DataEmbedding" /\ phase = "construct"
    /\ \E shape \in DataShapes, drop \in DropChoices :
       \E mark \in Marks(shape[1], shape[2]) :
         LET x == Arange3(shape[1], shape[2], self.c_in, 0)
         IN Call([drop |-> drop, mark |-> mark, x |-> x], <<>>,
                 DataEmbedding_forward(version, self, x, mark, drop))

NewDataEmbedding_wo_pos ==
    \E dims \in DataDims, embed_type \in EmbedTypes, freq \in Freqs :
        ConstructOrRaise("DataEmbedding_wo_pos",
            DataEmbedding_wo_pos_init(version, dims[1], dims[2], embed_type, freq, 0))

ForwardDataEmbedding_wo_pos ==
    /\ cls = "DataEmbedding_wo_pos" /\ phase = "construct"
    /\ \E shape \in DataShapes, drop \in DropChoices :
       \E mark \in Marks(shape[1], shape[2]) :
         LET x == Arange3(shape[1], shape[2], self.c_in, 0)
         IN Call([drop |-> drop, mark |-> mark, x |-> x], <<>>,
                 DataEmbedding_wo_pos_forward(version, self, x, mark, drop))

NextData ==
    \/ NewDataEmbedding
    \/ ForwardDataEmbedding
    \/ NewDataEmbedding_wo_pos
    \/ ForwardDataEmbedding_wo_pos

SpecData == Init /\ [][NextData]_vars

NewDataEmbedding_inverted ==
    \E c_in \in 1..MaxLen, d_model \in 1..MaxDModel, seed \in Seeds :
        Construct("DataEmbedding_inverted",
                  DataEmbedding_inverted_init(c_in, d_model, seed))

ForwardDataEmbedding_inverted ==
    /\ cls = "DataEmbedding_inverted" /\ phase = "construct"
    /\ \E B \in 1..MaxBatch, L \in 1..MaxLen, N \in 1..MaxChan, a \in Offsets,
          drop \in DropChoices :
       \E mark \in {NoMark} \cup
                    {Mark(Arange3(B, L, M, a + B * L * N)) : M \in 1..MaxChan} :
         LET x == Arange3(B, L, N, a)
         IN Call([drop |-> drop, mark |-> mark, x |-> x], <<>>,
                 DataEmbedding_inverted_forward(self, x, mark, drop))

NextInverted == NewDataEmbedding_inverted \/ ForwardDataEmbedding_inverted

SpecInverted == Init /\ [][NextInverted]_vars

(* ------------------------------ claims --------------------------------- *)
Shape3(t) == <<Len(t), Len(t[1]), Len(t[1][1])>>

Called(c) == cls = c /\ phase = "forward"

\* C2 (as stated): under every version string naming a release at or after
\* 1.5.0, TokenEmbedding.forward maps an input of shape (B, L, c_in), L >= 1,
\* to an output of shape (B, L, d_model).
C2_LengthPreserved ==
    (Called("TokenEmbedding") /\ ReleaseGE(Release(version), <<1, 5, 0>>))
        => /\ ~ret.raised
           /\ Shape3(ret.value) = <<Len(args.x), Len(args.x[1]), self.d_model>>

\* C3: the table of a PositionalEmbedding is the one its constructor built,
\* before and after every forward call, and forward(x) with L = x.shape[1] <=
\* max_len returns rows 0..L-1 of it, of shape (1, L, d_model), for even and
\* odd d_model, whatever the values and the other dimensions of x.
C3_FixedTable ==
    cls = "PositionalEmbedding" =>
        /\ self.pe = PositionalTable(self.d_model, self.max_len)
        /\ Shape3(self.pe) = <<1, self.max_len, self.d_model>>
        /\ (phase = "forward" /\ SeqDim(args.x) <= self.max_len) =>
              /\ ~ret.raised
              /\ Shape3(ret.value) = <<1, SeqDim(args.x), self.d_model>>
              /\ \A p \in 1..SeqDim(args.x) : ret.value[1][p] = self.pe[1][p]

C3_Witness ==
    /\ Called("PositionalEmbedding")
    /\ self.d_model % 2 = 1 /\ self.d_model > 1
    /\ SeqDim(args.x) > 1 /\ SeqDim(args.x) < self.max_len

(* PatchEmbedding: the windows of series m are local.x[m], cut from the    *)
(* padded series local.padded[b][c], m = (b-1)*n_channel + c.              *)
Patched == Called("PatchEmbedding") /\ ~local.raised

PaddedRow(m) ==
    local.padded[((m - 1) \div local.n_channel) + 1][((m - 1) % local.n_channel) + 1]

\* the padded positions (from 0) of window k (from 0)
WindowPositions(k) == (k * self.stride)..(k * self.stride + self.patch_len - 1)

WindowsCover ==
    \A m \in 1..Len(local.x) : \A k \in 1..Len(local.x[m]) :
        /\ Len(local.x[m][k]) = self.patch_len
        /\ \A j \in 1..self.patch_len :
              local.x[m][k][j] = PaddedRow(m)[(k - 1) * self.stride + j]

ConsecutiveOverlap ==
    \A m \in 1..Len(local.x) : \A k \in 0..(Len(local.x[m]) - 2) :
        WindowPositions(k) \cap WindowPositions(k + 1) # {}

TwoWindows == \A m \in 1..Len(local.x) : Len(local.x[m]) >= 2

\* C1 (as stated): whenever at least two windows are produced, every window
\* holds patch_len elements, window k holds padded positions k*stride ..
\* k*stride+patch_len-1, and every two consecutive windows share a position.
C1_AsStated == (Patched /\ TwoWindows) => (WindowsCover /\ ConsecutiveOverlap)

\* C1 (amended): whenever at least two windows are produced, every window
\* holds patch_len elements, window k holds padded positions k*stride ..
\* k*stride+patch_len-1, and consecutive windows share a position exactly
\* when stride < patch_len.
C1_Windows ==
    (Patched /\ TwoWindows) =>
        (WindowsCover /\ (ConsecutiveOverlap <=> self.stride < self.patch_len))

C1_Witness ==
    /\ Patched /\ TwoWindows
    /\ self.stride > 1 /\ self.stride < self.patch_len
    /\ Len(local.x) >= 2

InputRow(m) ==
    args.x[((m - 1) \div local.n_channel) + 1][((m - 1) % local.n_channel) + 1]

\* C7 (as stated): the padded series is SeqLen + stride long, and (for an
\* even stride) it is the series with its first element repeated stride/2
\* times at the head and its last element stride/2 times at the tail.
C7_AsStated ==
    Called("PatchEmbedding") =>
        \A m \in 1..(Len(args.x) * local.n_channel) :
            /\ Len(PaddedRow(m)) = Len(InputRow(m)) + self.stride
            /\ self.stride % 2 = 0 =>
                 LET h == self.stride \div 2
                 IN PaddedRow(m) = [i \in 1..h |-> InputRow(m)[1]] \o InputRow(m)
                                     \o [i \in 1..h |-> InputRow(m)[Len(InputRow(m))]]

(* TemporalEmbedding *)
\* the tables a lookup-table temporal embedding sums, by the claim: month,
\* day, weekday and hour, and minute exactly for freq 't'
ClaimedTables(freq) ==
    IF freq = "t" THEN {"month", "day", "weekday", "hour", "minute"}
    ELSE {"month", "day", "weekday", "hour"}

ClaimedColumn == [name \in {"month", "day", "weekday", "hour", "minute"} |->
    CASE name = "month" -> 0 [] name = "day" -> 1 [] name = "weekday" -> 2
      [] name = "hour" -> 3 [] name = "minute" -> 4]

ClaimedSize == [name \in {"month", "day", "weekday", "hour", "minute"} |->
    CASE name = "month" -> 13 [] name = "day" -> 32 [] name = "weekday" -> 7
      [] name = "hour" -> 24 [] name = "minute" -> 4]

TableOf(s, name) ==
    CASE name = "month" -> s.month_embed [] name = "day" -> s.day_embed
      [] name = "weekday" -> s.weekday_embed [] name = "hour" -> s.hour_embed
      [] name = "minute" -> s.minute_embed

\* the integer cast of mark (b, t, col)
MarkIndex(x, b, t, col) == Long(x[b][t][col + 1])

\* every claimed lookup of x is defined: its column exists, its index is in the table
LookupsDefined(s, x) ==
    \A name \in ClaimedTables(s.freq) :
        /\ ClaimedColumn[name] < Len(x[1][1])
        /\ \A b \in 1..Len(x) : \A t \in 1..Len(x[b]) :
              MarkIndex(x, b, t, ClaimedColumn[name]) \in 0..(ClaimedSize[name] - 1)

\* the terms of element (b, t, c) of the result, as a set
TermSet(seq) == {seq[i] : i \in 1..Len(seq)}

TemporalSumIs(s, x, r) ==
    IF LookupsDefined(s, x)
    THEN /\ ~r.raised
         /\ Len(r.value) = Len(x)
         /\ \A b \in 1..Len(x) :
              /\ Len(r.value[b]) = Len(x[b])
              /\ \A t \in 1..Len(x[b]) :
                    /\ Len(r.value[b][t]) = s.d_model
                    /\ \A c \in 1..s.d_model :
                          /\ Len(r.value[b][t][c]) = Cardinality(ClaimedTables(s.freq))
                          /\ TermSet(r.value[b][t][c]) =
                                { TableEntry(TableOf(s, name), name,
                                             MarkIndex(x, b, t, ClaimedColumn[name]), c - 1) :
                                  name \in ClaimedTables(s.freq) }
    ELSE r.raised

\* C4: TemporalEmbedding.forward returns, element by element, the sum of the
\* lookups month (column 0, 13 rows), day (column 1, 32 rows), weekday
\* (column 2, 7 rows) and hour (column 3, 24 rows) of the integer-cast
\* marks, plus the minute lookup (column 4, 4 rows) exactly when freq is
\* 't'; for any other freq column 4 is not read and may be absent.  A
\* lookup that is not defined raises.
C4_TemporalSum ==
    Called("TemporalEmbedding") =>
        /\ hasattr(self, "minute_embed") <=> self.freq = "t"
        /\ \A name \in ClaimedTables(self.freq) :
              TableOf(self, name).size = ClaimedSize[name]
        /\ TemporalSumIs(self, args.x, ret)

C4_Witness ==
    /\ Called("TemporalEmbedding")
    /\ self.freq # "t"
    /\ Len(args.x[1][1]) = 4
    /\ Len(args.x[1]) >= 2
    /\ ~ret.raised
    /\ self.embed_type = "learned"

(* DataEmbedding and DataEmbedding_wo_pos *)
Composed == cls \in {"DataEmbedding", "DataEmbedding_wo_pos"}

TemporalTables(t) ==
    {t.hour_embed, t.weekday_embed, t.day_embed, t.month_embed}
        \cup (IF hasattr(t, "minute_embed") THEN {t.minute_embed} ELSE {})

\* C5: the temporal part of a DataEmbedding or DataEmbedding_wo_pos is the
\* linear TimeFeatureEmbedding exactly when embed_type is 'timeF'; otherwise
\* it is the lookup-table TemporalEmbedding, whose tables are the
\* non-trainable sinusoidal FixedEmbedding exactly when embed_type is
\* 'fixed', and learned nn.Embedding tables otherwise.
C5_TemporalChoice ==
    Composed =>
        LET t == self.temporal_embedding
        IN /\ t.cls = "TimeFeatureEmbedding" <=> self.embed_type = "timeF"
           /\ self.embed_type # "timeF" =>
                 /\ t.cls = "TemporalEmbedding"
                 /\ \A tab \in TemporalTables(t) :
                       IF self.embed_type = "fixed"
                       THEN tab.kind = "FixedEmbedding" /\ ~tab.requires_grad
                       ELSE tab.kind = "nn.Embedding" /\ tab.requires_grad

C5_Witness ==
    /\ cls = "DataEmbedding_wo_pos"
    /\ self.embed_type = "fixed"
    /\ self.freq = "t"
    /\ phase = "forward"

\* the three parts of the module called on the arguments of the call
ValuePart == ValueTerm(version, self, args.x)
PositionPart == PositionTerm(self, args.x)
TemporalPart == TemporalTerm(self, args.mark.x_mark)

\* C8: DataEmbedding.forward returns (the dropout of) value + position when
\* x_mark is None and value + temporal + position otherwise;
\* DataEmbedding_wo_pos.forward returns value when x_mark is None and
\* value + temporal otherwise, and never adds the positional term it owns.
C8_Composition ==
    /\ Called("DataEmbedding") =>
          ret = Dropout(args.drop,
                    IF args.mark.none THEN TensorAdd(ValuePart, PositionPart)
                    ELSE TensorAdd(TensorAdd(ValuePart, TemporalPart), PositionPart))
    /\ Called("DataEmbedding_wo_pos") =>
          /\ hasattr(self, "position_embedding")
          /\ ret = Dropout(args.drop,
                    IF args.mark.none THEN ValuePart
                    ELSE TensorAdd(ValuePart, TemporalPart))

C8_Witness ==
    /\ Called("DataEmbedding")
    /\ ~args.mark.none
    /\ ~ret.raised
    /\ Len(args.x[1]) >= 2
    /\ Len(ret.value[1][1][1].of) = 3

(* DataEmbedding_inverted *)
\* the token the linear map makes of one series over the time axis
TokenOf(s, series) ==
    [d \in 1..s.d_model |->
        SumSeq([t \in 1..Len(series) |-> s.weight[d][t] * series[t]]) + s.bias[d]]

\* variate j of x, and feature k of x_mark, of batch b, over the time axis
Variate(x, b, j) == [t \in 1..Len(x[b]) |-> x[b][t][j]]

\* C9: for x of shape (B, L, N) with L = c_in, DataEmbedding_inverted.forward
\* returns (B, N, d_model) when x_mark is None and (B, N + M, d_model) when
\* x_mark has shape (B, L, M); token j < N is the linear map of variate j of
\* x alone and token N + k the same linear map of mark feature k alone.
C9_InvertedTokens ==
    (Called("DataEmbedding_inverted") /\ Len(args.x[1]) = self.c_in) =>
        LET B == Len(args.x)
            N == Len(args.x[1][1])
            M == IF args.mark.none THEN 0 ELSE Len(args.mark.x_mark[1][1])
        IN /\ ~ret.raised
           /\ Shape3(ret.value) = <<B, N + M, self.d_model>>
           /\ \A b \in 1..B : \A d \in 1..self.d_model :
                 /\ \A j \in 1..N :
                       ret.value[b][j][d].of =
                           <<Num(TokenOf(self, Variate(args.x, b, j))[d])>>
                 /\ \A k \in 1..M :
                       ret.value[b][N + k][d].of =
                           <<Num(TokenOf(self, Variate(args.mark.x_mark, b, k))[d])>>

C9_Witness ==
    /\ Called("DataEmbedding_inverted")
    /\ Len(args.x[1]) = self.c_in /\ self.c_in >= 2
    /\ ~args.mark.none
    /\ Len(args.x[1][1]) >= 2
    /\ Len(args.mark.x_mark[1][1]) >= 2

====
